---- MODULE Spec2Model ----
(***************************************************************************)
(* The stage-execution and termination protocol of pyper's synchronous     *)
(* backend (src/pyper/_core/sync_helper/stage.py): one source stage        *)
(* (Producer) followed by a chain of relay stages (ProducerConsumer), the  *)
(* queues between them, the shutdown event, the error queue, and the       *)
(* driver that reads the last output queue.                                *)
(*                                                                         *)
(* Stage 0 is the source stage; stages 1..Last are relay stages.  q[s] is  *)
(* the output queue of stage s, hence the input queue of stage s+1.        *)
(***************************************************************************)
EXTENDS Integers, Sequences, FiniteSets

\* ------------------------------------------------------------------ bounds
MaxConc == 2        \* largest concurrency of a relay stage
MaxThrottle == 1    \* largest throttle of a stage (0 is "unbounded")
NItems == 2         \* number of items the source task yields

\* ------------------------------------------------------------ the pipeline
Relays == {1, 2}
Stages == {0} \cup Relays
Last == CHOOSE s \in Relays : \A t \in Relays : t <= s
Slots == 1..MaxConc

\* util.sentinel.StopSentinel: the end-of-stream marker; payloads are >= 1
StopSentinel == 0

VARIABLES
    conc,          \* conc[s]: task.concurrency of relay stage s
    throttle,      \* throttle[s]: task.throttle of stage s
    q,             \* q[s]: q_out of stage s
    shutdown,      \* shutdown_event
    q_err,         \* the error queue: one entry <<stage, worker>> per exception
    workers_done,  \* workers_done[s]: ProducerConsumer._workers_done
    lock,          \* lock[s]: holder of ProducerConsumer._lock, 0 when free
    ppc,           \* position of Producer._worker
    pidx,          \* index of the next item the source task yields
    psent,         \* iterations done of the Producer's sentinel loop
    pc,            \* pc[s][w]: position of worker w of relay stage s
    cur,           \* cur[s][w]: the value the worker's dequeue loop holds
    tmp,           \* tmp[s][w]: the counter value read inside the lock
    ret,           \* ret[s][w]: what _increment_workers_done returned, 0 before
    sent,          \* sent[s][w]: iterations done of _finish's sentinel loop
    dpc,           \* position of the driver reading q[Last]
    collected,     \* what the driver has read before the sentinel
    nSent,         \* history: nSent[s] = sentinels written to q[s] so far
    raised,        \* history: the workers <<stage, worker>> whose task raised
    targs,         \* the arguments of a descriptor construction
    task,          \* the descriptor Task(...) produced, NoTask before or on a raise
    atask,         \* what asynchronize(task) returned
    atask2,        \* what asynchronize(asynchronize(task)) returned
    prod,          \* the Producer built on task
    submitted,     \* whether Producer.start submitted the worker
    called         \* one awaited call of the callable of atask

vars == <<conc, throttle, q, shutdown, q_err, workers_done, lock, ppc, pidx,
          psent, pc, cur, tmp, ret, sent, dpc, collected, nSent, raised,
          targs, task, atask, atask2, prod, submitted, called>>

taskVars == <<targs, task, atask, atask2, prod, submitted, called>>
cfgVars == <<conc, throttle, taskVars>>
prodVars == <<ppc, pidx, psent>>
relayVars == <<pc, cur, tmp, ret, sent, workers_done, lock>>
drvVars == <<dpc, collected>>

\* --------------------------------------------------------------- helpers
\* Task.concurrency of stage s (the first task has concurrency 1)
Concurrency(s) == IF s = 0 THEN 1 ELSE conc[s]

\* self._n_consumers = 1 if next_task is None else next_task.concurrency
OneConsumer(s) == 1
NConsumers(s) == IF s = Last THEN 1 ELSE conc[s + 1]

\* queue.Queue(maxsize=task.throttle): put blocks while the queue is full;
\* maxsize 0 is an unbounded queue
CanPutOffByOne(s) == throttle[s] = 0 \/ Len(q[s]) <= throttle[s]
CanPut(s) == throttle[s] = 0 \/ Len(q[s]) < throttle[s]

\* the task function of a relay stage, applied by the enqueue strategy
TaskFunc(x) == 2 * x

\* the k-th item the source task yields
SourceItem(k) == k

Workers(s) == 1..Concurrency(s)

\* with self._lock: the lock can be taken when no worker holds it
LockIgnored(s) == TRUE
LockFree(s) == lock[s] = 0

\* _finish: if self._increment_workers_done() == self._n_workers
EveryFinisherPushes(s, v) == TRUE
FirstFinisherPushes(s, v) == v = 1
LastToFinish(s, v) == v = Concurrency(s)

\* if not self._shutdown_event.is_set(): self._enqueue(output)
ForwardsAlways(flag) == TRUE
ForwardsWhenSet(flag) == flag
Forwards(flag) == ~flag

\* self._shutdown_event.set()
EventSetSkipped(flag) == flag
EventSet(flag) == TRUE

\* self._q_err.put(e)
ErrDropped(e) == q_err
ErrPut(e) == Append(q_err, e)

\* Producer._worker: the finally block runs after the except block too
ProducerExceptSkipsFinally == "done"
ProducerAfterExcept == "finally"

\* ------------------------------------------------------------------ Init
\* The state after the stages are constructed and started: every worker has
\* been submitted to the pool and stands at the top of its _worker body.
Started ==
    /\ q = [s \in Stages |-> <<>>]
    /\ shutdown = FALSE
    /\ q_err = <<>>
    /\ workers_done = [s \in Relays |-> 0]
    /\ lock = [s \in Relays |-> 0]
    /\ ppc = "enqueue"
    /\ pidx = 1
    /\ psent = 0
    /\ pc = [s \in Relays |-> [w \in Slots |-> IF w <= conc[s] THEN "get" ELSE "none"]]
    /\ cur = [s \in Relays |-> [w \in Slots |-> 0]]
    /\ tmp = [s \in Relays |-> [w \in Slots |-> 0]]
    /\ ret = [s \in Relays |-> [w \in Slots |-> 0]]
    /\ sent = [s \in Relays |-> [w \in Slots |-> 0]]
    /\ dpc = "read"
    /\ collected = <<>>
    /\ nSent = [s \in Stages |-> 0]
    /\ raised = {}

\* no descriptor, no Producer
NoTask == [ok |-> FALSE, err |-> "none"]
NoCall == [executor |-> "none", outcome |-> "none", seen |-> "none"]

Unbuilt ==
    /\ task = NoTask
    /\ atask = NoTask
    /\ atask2 = NoTask
    /\ prod = NoTask
    /\ submitted = FALSE
    /\ called = NoCall

Init ==
    /\ conc \in [Relays -> 1..MaxConc]
    /\ throttle \in [Stages -> 0..MaxThrottle]
    /\ Started
    /\ targs = NoTask
    /\ Unbuilt

\* ------------------------------------------------------ Producer._worker
\* self._enqueue(*args, **kwargs), branching strategy: the source task yields
\* its next item and the strategy puts it on q_out (blocking while full)
ProducerPut ==
    /\ ppc = "enqueue"
    /\ pidx <= NItems
    /\ CanPut(0)
    /\ q' = [q EXCEPT ![0] = Append(@, SourceItem(pidx))]
    /\ pidx' = pidx + 1
    /\ UNCHANGED <<cfgVars, shutdown, q_err, ppc, psent, relayVars, drvVars, nSent, raised>>

\* the source task is exhausted: the enqueue strategy returns
ProducerReturn ==
    /\ ppc = "enqueue"
    /\ pidx > NItems
    /\ ppc' = "finally"
    /\ UNCHANGED <<cfgVars, q, shutdown, q_err, pidx, psent, relayVars, drvVars, nSent, raised>>

\* the source task raises instead of yielding or returning
ProducerRaise ==
    /\ ppc = "enqueue"
    /\ ppc' = "except_set"
    /\ raised' = raised \cup {<<0, 1>>}
    /\ UNCHANGED <<cfgVars, q, shutdown, q_err, pidx, psent, relayVars, drvVars, nSent>>

\* except Exception as e: self._shutdown_event.set()
ProducerExceptSet ==
    /\ ppc = "except_set"
    /\ shutdown' = EventSet(shutdown)
    /\ ppc' = "except_put"
    /\ UNCHANGED <<cfgVars, q, q_err, pidx, psent, relayVars, drvVars, nSent, raised>>

\* self._q_err.put(e)
ProducerExceptPut ==
    /\ ppc = "except_put"
    /\ q_err' = ErrPut(<<0, 1>>)
    /\ ppc' = ProducerAfterExcept
    /\ UNCHANGED <<cfgVars, q, shutdown, pidx, psent, relayVars, drvVars, nSent, raised>>

\* finally: for _ in range(self._n_consumers): self.q_out.put(StopSentinel)
ProducerSentinel ==
    /\ ppc = "finally"
    /\ psent < NConsumers(0)
    /\ CanPut(0)
    /\ q' = [q EXCEPT ![0] = Append(@, StopSentinel)]
    /\ nSent' = [nSent EXCEPT ![0] = @ + 1]
    /\ psent' = psent + 1
    /\ ppc' = IF psent + 1 = NConsumers(0) THEN "done" ELSE "finally"
    /\ UNCHANGED <<cfgVars, shutdown, q_err, pidx, relayVars, drvVars, raised>>

\* ----------------------------------------------- ProducerConsumer._worker
\* for output in self._dequeue(): a blocking q_in.get(); the loop ends at the
\* first StopSentinel this worker reads
Get(s, w) ==
    /\ pc[s][w] = "get"
    /\ q[s - 1] # <<>>
    /\ q' = [q EXCEPT ![s - 1] = Tail(@)]
    /\ IF Head(q[s - 1]) = StopSentinel
         THEN /\ pc' = [pc EXCEPT ![s][w] = "finish"]
              /\ cur' = cur
         ELSE /\ pc' = [pc EXCEPT ![s][w] = "check"]
              /\ cur' = [cur EXCEPT ![s][w] = Head(q[s - 1])]
    /\ UNCHANGED <<cfgVars, shutdown, q_err, prodVars, tmp, ret, sent, workers_done,
                   lock, drvVars, nSent, raised>>

\* if not self._shutdown_event.is_set(): ... else the output is dropped
Check(s, w) ==
    /\ pc[s][w] = "check"
    /\ IF Forwards(shutdown)
         THEN /\ pc' = [pc EXCEPT ![s][w] = "enqueue"]
              /\ cur' = cur
         ELSE /\ pc' = [pc EXCEPT ![s][w] = "get"]
              /\ cur' = [cur EXCEPT ![s][w] = 0]
    /\ UNCHANGED <<cfgVars, q, shutdown, q_err, prodVars, tmp, ret, sent, workers_done,
                   lock, drvVars, nSent, raised>>

\* self._enqueue(output), single strategy: q_out.put(task.func(output))
Put(s, w) ==
    /\ pc[s][w] = "enqueue"
    /\ CanPut(s)
    /\ q' = [q EXCEPT ![s] = Append(@, TaskFunc(cur[s][w]))]
    /\ pc' = [pc EXCEPT ![s][w] = "get"]
    /\ cur' = [cur EXCEPT ![s][w] = 0]
    /\ UNCHANGED <<cfgVars, shutdown, q_err, prodVars, tmp, ret, sent, workers_done,
                   lock, drvVars, nSent, raised>>

\* task.func(output) raises inside the enqueue strategy
Raise(s, w) ==
    /\ pc[s][w] = "enqueue"
    /\ pc' = [pc EXCEPT ![s][w] = "except_set"]
    /\ cur' = [cur EXCEPT ![s][w] = 0]
    /\ raised' = raised \cup {<<s, w>>}
    /\ UNCHANGED <<cfgVars, q, shutdown, q_err, prodVars, tmp, ret, sent, workers_done,
                   lock, drvVars, nSent>>

\* except Exception as e: self._shutdown_event.set()
ExceptSet(s, w) ==
    /\ pc[s][w] = "except_set"
    /\ shutdown' = EventSet(shutdown)
    /\ pc' = [pc EXCEPT ![s][w] = "except_put"]
    /\ UNCHANGED <<cfgVars, q, q_err, prodVars, cur, tmp, ret, sent, workers_done,
                   lock, drvVars, nSent, raised>>

\* self._q_err.put(e)
ExceptPut(s, w) ==
    /\ pc[s][w] = "except_put"
    /\ q_err' = ErrPut(<<s, w>>)
    /\ pc' = [pc EXCEPT ![s][w] = "finish"]
    /\ UNCHANGED <<cfgVars, q, shutdown, prodVars, cur, tmp, ret, sent, workers_done,
                   lock, drvVars, nSent, raised>>

\* finally: self._finish() -> _increment_workers_done: with self._lock:
\* the worker takes the lock and reads the counter
Acquire(s, w) ==
    /\ pc[s][w] = "finish"
    /\ LockFree(s)
    /\ lock' = [lock EXCEPT ![s] = w]
    /\ tmp' = [tmp EXCEPT ![s][w] = workers_done[s]]
    /\ pc' = [pc EXCEPT ![s][w] = "incr"]
    /\ UNCHANGED <<cfgVars, q, shutdown, q_err, prodVars, cur, ret, sent, workers_done,
                   drvVars, nSent, raised>>

\* self._workers_done += 1; return self._workers_done; the lock is released
\* and _finish compares the returned value with self._n_workers
Increment(s, w) ==
    /\ pc[s][w] = "incr"
    /\ workers_done' = [workers_done EXCEPT ![s] = tmp[s][w] + 1]
    /\ ret' = [ret EXCEPT ![s][w] = tmp[s][w] + 1]
    /\ tmp' = [tmp EXCEPT ![s][w] = 0]
    /\ lock' = [lock EXCEPT ![s] = 0]
    /\ pc' = [pc EXCEPT ![s][w] =
                IF LastToFinish(s, tmp[s][w] + 1) THEN "sentinel" ELSE "done"]
    /\ UNCHANGED <<cfgVars, q, shutdown, q_err, prodVars, cur, sent, drvVars, nSent, raised>>

\* for _ in range(self._n_consumers): self.q_out.put(StopSentinel)
Sentinel(s, w) ==
    /\ pc[s][w] = "sentinel"
    /\ CanPut(s)
    /\ q' = [q EXCEPT ![s] = Append(@, StopSentinel)]
    /\ nSent' = [nSent EXCEPT ![s] = @ + 1]
    /\ sent' = [sent EXCEPT ![s][w] = @ + 1]
    /\ pc' = [pc EXCEPT ![s][w] =
                IF sent[s][w] + 1 = NConsumers(s) THEN "done" ELSE "sentinel"]
    /\ UNCHANGED <<cfgVars, shutdown, q_err, prodVars, cur, tmp, ret, workers_done,
                   lock, drvVars, raised>>

\* ------------------------------------------------------------- the driver
\* the caller of the pipeline reads the last output queue until StopSentinel
DriverRead ==
    /\ dpc = "read"
    /\ q[Last] # <<>>
    /\ q' = [q EXCEPT ![Last] = Tail(@)]
    /\ IF Head(q[Last]) = StopSentinel
         THEN /\ dpc' = "done"
              /\ collected' = collected
         ELSE /\ dpc' = "read"
              /\ collected' = Append(collected, Head(q[Last]))
    /\ UNCHANGED <<cfgVars, shutdown, q_err, prodVars, relayVars, nSent, raised>>

ProducerStep ==
    \/ ProducerPut
    \/ ProducerReturn
    \/ ProducerRaise
    \/ ProducerExceptSet
    \/ ProducerExceptPut
    \/ ProducerSentinel

WorkerStep(s, w) ==
    \/ Get(s, w)
    \/ Check(s, w)
    \/ Put(s, w)
    \/ Raise(s, w)
    \/ ExceptSet(s, w)
    \/ ExceptPut(s, w)
    \/ Acquire(s, w)
    \/ Increment(s, w)
    \/ Sentinel(s, w)

Next ==
    \/ ProducerStep
    \/ \E s \in Relays : \E w \in Slots : WorkerStep(s, w)
    \/ DriverRead

Spec == Init /\ [][Next]_vars

\* Threads of the pool are scheduled fairly, and the driver keeps reading.
FairSpec ==
    /\ Init
    /\ [][Next]_vars
    /\ WF_vars(ProducerStep)
    /\ \A s \in Relays : \A w \in Slots : WF_vars(WorkerStep(s, w))
    /\ WF_vars(DriverRead)

\* ------------------------------------------------------- state predicates
ProducerExited == ppc = "done"
WorkerExited(s, w) == pc[s][w] = "done"
StageExited(s) == \A w \in Workers(s) : WorkerExited(s, w)
AllExited == ProducerExited /\ \A s \in Relays : StageExited(s)

TypeOK ==
    /\ \A s \in Stages : \A i \in 1..Len(q[s]) : q[s][i] \in Nat
    /\ shutdown \in BOOLEAN
    /\ ppc \in {"enqueue", "except_set", "except_put", "finally", "done"}
    /\ dpc \in {"read", "done"}


\* where a worker stands: <<0, 1>> is the source worker
Pos(x) == IF x[1] = 0 THEN ppc ELSE pc[x[1]][x[2]]

AllWorkers == {<<0, 1>>} \cup {x \in Relays \X Slots : x[2] <= conc[x[1]]}

Count(seq, v) == Cardinality({i \in 1..Len(seq) : seq[i] = v})

SameMultiset(a, b) ==
    /\ Len(a) = Len(b)
    /\ \A i \in 1..Len(a) : Count(a, a[i]) = Count(b, a[i])

\* the source items mapped through the task function of every relay stage
Expected == [k \in 1..NItems |-> TaskFunc(TaskFunc(SourceItem(k)))]

\* -------------------------------------------------------------------- C1
\* C1: a relay stage with concurrency c feeding m consumers writes at most m
\* Sentinels to its output queue, writes none before all c workers have made
\* their completion-counter increment, and has written exactly m once all
\* its workers have exited.
C1_SentinelAccounting ==
    \A s \in Relays :
        /\ nSent[s] <= NConsumers(s)
        /\ nSent[s] > 0 =>
              /\ workers_done[s] = Concurrency(s)
              /\ \A w \in Workers(s) : ret[s][w] # 0
        /\ StageExited(s) => nSent[s] = NConsumers(s)

\* a stage of 2 workers feeding 2 consumers has exited, one worker having
\* raised and the other not
C1_Witness ==
    \E s \in Relays \ {Last} :
        /\ conc[s] > 1 /\ conc[s + 1] > 1
        /\ StageExited(s)
        /\ nSent[s] = conc[s + 1]
        /\ <<s, 1>> \in raised /\ <<s, 2>> \notin raised

\* -------------------------------------------------------------------- C2
\* C2: the source worker writes its Sentinels only in its final phase, after
\* the enqueue strategy returned or raised; it never writes more than
\* n_consumers, and its run ends with exactly n_consumers written.
C2_ProducerSentinels ==
    /\ nSent[0] = psent
    /\ psent <= NConsumers(0)
    /\ psent > 0 => ppc \in {"finally", "done"}
    /\ ppc = "done" => psent = NConsumers(0)

\* the source task raised and the worker still ended with 2 Sentinels written
C2_Witness ==
    /\ ppc = "done"
    /\ <<0, 1>> \in raised
    /\ conc[1] > 1
    /\ psent = conc[1]

\* -------------------------------------------------------------------- C3
\* C3: once any worker has raised, every worker of every stage eventually
\* exits and the error queue is then non-empty.
C3_DrainsUnderFault == (raised # {}) ~> (AllExited /\ q_err # <<>>)

C5_DistinctReturns ==
    \A s \in Relays :
        /\ \A w \in Workers(s) : ret[s][w] \in 0..Concurrency(s)
        /\ \A w1, w2 \in Workers(s) :
              (w1 # w2 /\ ret[s][w1] # 0) => ret[s][w1] # ret[s][w2]
        /\ \A w \in Workers(s) :
              (pc[s][w] = "sentinel" \/ sent[s][w] > 0) => ret[s][w] = Concurrency(s)
        /\ (\A w \in Workers(s) : ret[s][w] # 0) =>
              {ret[s][w] : w \in Workers(s)} = 1..Concurrency(s)

\* both workers of a stage have their return value, one after raising and
\* one after reading its Sentinel
C5_Witness ==
    \E s \in Relays :
        /\ conc[s] > 1
        /\ ret[s][1] = 2 /\ ret[s][2] = 1
        /\ <<s, 2>> \in raised /\ <<s, 1>> \notin raised

\* -------------------------------------------------------------------- C6
\* C6: once the Shutdown Flag is set, the source worker writes no further
\* data item and no relay worker passes its flag check towards a write.
C6_FlagObservedBeforeEveryEnqueue ==
    [][shutdown =>
         /\ pidx' = pidx
         /\ \A s \in Relays : \A w \in Slots :
               pc[s][w] = "check" => pc'[s][w] # "enqueue"]_vars

\* -------------------------------------------------------------------- C7
\* C7: a relay worker's flag check hands the output to the enqueue strategy
\* when the flag is unset and drops it when the flag is set (nothing written,
\* no error recorded, back to the dequeue loop); the enqueue strategy's put
\* writes the task's result for it; and with the flag set a stage whose
\* workers have exited has counted them all and written its Sentinels.
C7_ForwardOrDrop ==
    /\ [](\A s \in Relays :
            (shutdown /\ StageExited(s)) =>
                /\ workers_done[s] = Concurrency(s)
                /\ nSent[s] = NConsumers(s))
    /\ [][\A s \in Relays : \A w \in Slots :
            /\ (pc[s][w] = "check" /\ pc'[s][w] # "check") =>
                  IF shutdown
                    THEN /\ pc'[s][w] = "get"
                         /\ q' = q
                         /\ q_err' = q_err
                         /\ raised' = raised
                    ELSE /\ pc'[s][w] = "enqueue"
                         /\ cur'[s][w] = cur[s][w]
            /\ (pc[s][w] = "enqueue" /\ pc'[s][w] = "get") =>
                  q'[s] = Append(q[s], TaskFunc(cur[s][w]))]_vars

\* the source yielded all its items and then raised, no relay worker raised,
\* every worker exited and the driver got its Sentinel without any item:
\* every item was dropped at a flag check
C7_Witness ==
    /\ raised = {<<0, 1>>}
    /\ pidx > NItems
    /\ AllExited
    /\ dpc = "done"
    /\ collected = <<>>

\* -------------------------------------------------------------------- C8
\* C8: the error queue holds exactly one entry for every worker that raised
\* and has passed its except block, none for any other worker; such a worker
\* has set the flag; so when all workers have exited the number of entries is
\* the number of workers that raised.
C8_ErrorSink ==
    /\ Len(q_err) =
          Cardinality({x \in raised : Pos(x) \notin {"except_set", "except_put"}})
    /\ \A i \in 1..Len(q_err) : q_err[i] \in raised /\ Count(q_err, q_err[i]) = 1
    /\ \A x \in raised : Pos(x) # "except_set" => shutdown
    /\ AllExited => Len(q_err) = Cardinality(raised)

\* the source worker and a relay worker both raised and all workers exited
C8_Witness ==
    /\ AllExited
    /\ <<0, 1>> \in raised
    /\ Cardinality(raised) >= 2
    /\ Len(q_err) >= 2

\* -------------------------------------------------------------------- C9
\* C9: a queue with throttle k > 0 never holds more than k entries, and a
\* writer standing at a put on a queue with throttle 0 is never blocked.
C9_Backpressure ==
    \A s \in Stages :
        /\ throttle[s] > 0 => Len(q[s]) <= throttle[s]
        /\ throttle[s] = 0 =>
              /\ (s = 0 /\ ppc = "enqueue" /\ pidx <= NItems) => ENABLED ProducerPut
              /\ (s = 0 /\ ppc = "finally") => ENABLED ProducerSentinel
              /\ \A w \in Slots :
                    /\ (s # 0 /\ pc[s][w] = "enqueue") => ENABLED Put(s, w)
                    /\ (s # 0 /\ pc[s][w] = "sentinel") => ENABLED Sentinel(s, w)

\* the source worker stands at a put on its full throttled queue
C9_Witness ==
    /\ throttle[0] > 0
    /\ Len(q[0]) = throttle[0]
    /\ ppc = "enqueue"
    /\ pidx <= NItems
    /\ ~ENABLED ProducerPut

\* ------------------------------------------------------------------- C10
\* C10: when the driver has read the Sentinel of a run in which nothing
\* raised, what it collected is, as a multiset, the source items mapped
\* through the relay stages' functions, and the error queue is empty.
C10_NoLossNoDup ==
    (dpc = "done" /\ raised = {}) =>
        /\ SameMultiset(collected, Expected)
        /\ q_err = <<>>

\* two workers per relay stage, and the driver collected the items out of
\* their source order
C10_Witness ==
    /\ dpc = "done"
    /\ raised = {}
    /\ \A s \in Relays : conc[s] > 1
    /\ NItems >= 2
    /\ collected[1] = TaskFunc(TaskFunc(SourceItem(2)))


\* ------------------------------------------------------------------- C11
IsPrefix(a, b) == Len(a) <= Len(b) /\ \A i \in 1..Len(a) : a[i] = b[i]

\* C11: with concurrency 1 in every stage and nothing raised, what the driver
\* has collected is at every moment a prefix of the source items mapped
\* through the stage functions in source order, and the whole sequence once
\* the driver has read the Sentinel.
C11_OrderPreserved ==
    (raised = {} /\ \A s \in Relays : conc[s] = 1) =>
        /\ IsPrefix(collected, Expected)
        /\ dpc = "done" => collected = Expected

\* a finished fault-free run of a pipeline with one worker per stage
C11_Witness ==
    /\ dpc = "done"
    /\ raised = {}
    /\ \A s \in Relays : conc[s] = 1
    /\ Len(collected) = NItems
    /\ NItems >= 2

\* ------------------------------------------------------------------- C12
InLoop == {"get", "check", "enqueue"}

\* a worker leaves its dequeue loop only by reading a Sentinel itself or by
\* its own task raising, and a step moves one worker of a stage at most
SiblingNotStopped(s, w) ==
    /\ (pc[s][w] \in InLoop /\ pc'[s][w] \notin InLoop) =>
          \/ /\ pc[s][w] = "get"
             /\ q[s - 1] # <<>>
             /\ Head(q[s - 1]) = StopSentinel
             /\ pc'[s][w] = "finish"
          \/ /\ pc[s][w] = "enqueue"
             /\ pc'[s][w] = "except_set"
             /\ <<s, w>> \in raised' /\ <<s, w>> \notin raised
    /\ \A w2 \in Slots \ {w} :
          pc'[s][w2] # pc[s][w2] => pc'[s][w] = pc[s][w]

\* the input of an invocation that raises is put back nowhere
FaultNotRetried(s, w) ==
    (pc[s][w] = "enqueue" /\ pc'[s][w] = "except_set") =>
        /\ q' = q
        /\ cur'[s][w] = 0

\* no input of a stage is held twice (in its input queue or by its workers)
InputsDistinct ==
    \A s \in Relays :
        /\ \A i, j \in 1..Len(q[s - 1]) :
              (i # j /\ q[s - 1][i] # StopSentinel) => q[s - 1][i] # q[s - 1][j]
        /\ \A w \in Slots : cur[s][w] # 0 =>
              /\ \A i \in 1..Len(q[s - 1]) : q[s - 1][i] # cur[s][w]
              /\ \A w2 \in Slots \ {w} : cur[s][w2] # cur[s][w]

\* every dequeued item goes on to the task invocation
AlwaysInvoked(s, w) ==
    (pc[s][w] = "check" /\ pc'[s][w] # "check") => pc'[s][w] = "enqueue"

\* a dequeued item goes on to the task invocation when the flag check finds
\* the flag unset, and is dropped uninvoked when it finds the flag set
InvokedUnlessFlag(s, w) ==
    (pc[s][w] = "check" /\ pc'[s][w] # "check") =>
        IF shutdown
          THEN pc'[s][w] = "get" /\ q' = q /\ raised' = raised
          ELSE pc'[s][w] = "enqueue"

C18_CompletionCounter ==
    /\ [](\A s \in Relays :
            /\ workers_done[s] = Cardinality({w \in Workers(s) : ret[s][w] # 0})
            /\ workers_done[s] <= Concurrency(s)
            /\ StageExited(s) => workers_done[s] = Concurrency(s))
    /\ [][\A s \in Relays :
            /\ workers_done'[s] \in {workers_done[s], workers_done[s] + 1}
            /\ \A w \in Slots : ret[s][w] # 0 => ret'[s][w] = ret[s][w]]_vars

\* a stage of 2 workers has exited with the counter at 2, worker 2 having raised
C18_Witness ==
    \E s \in Relays :
        /\ conc[s] > 1
        /\ StageExited(s)
        /\ workers_done[s] = conc[s]
        /\ <<s, 2>> \in raised

\* ------------------------------------------------------------------- C19
\* C19: on every stage output queue no data item stands behind a Sentinel,
\* and once a stage has written its first Sentinel every further entry
\* written to its output queue is a Sentinel.
C19_SentinelsLast ==
    /\ [](\A s \in Stages : \A i, j \in 1..Len(q[s]) :
            (i < j /\ q[s][i] = StopSentinel) => q[s][j] = StopSentinel)
    /\ [][\A s \in Stages :
            (nSent[s] > 0 /\ Len(q'[s]) > Len(q[s])) =>
                q'[s][Len(q'[s])] = StopSentinel]_vars

\* the output queue of a stage of 2 workers holds data followed by a Sentinel
C19_Witness ==
    \E s \in Relays :
        /\ conc[s] > 1
        /\ Len(q[s]) >= 2
        /\ q[s][1] # StopSentinel
        /\ q[s][Len(q[s])] = StopSentinel

\* ------------------------------------------------------------------- C20
\* C20: a non-empty error queue implies the flag is set, the flag is set only
\* in a run in which a worker raised, and once set the flag stays set.
C20_FlagAndSink ==
    /\ [](q_err # <<>> => shutdown)
    /\ [](shutdown => raised # {})
    /\ [][shutdown => shutdown']_vars

\* a relay worker raised, its exception is in the error queue, the flag is
\* set and every worker has exited
C20_Witness ==
    /\ q_err # <<>>
    /\ shutdown
    /\ AllExited
    /\ <<0, 1>> \notin raised


\* ======================================================================
\* Task descriptors (task.py), the source stage's constructor (stage.py) and
\* the async adapter (util/asynchronize.py)
\* ======================================================================
pipeVars == <<conc, throttle, q, shutdown, q_err, workers_done, lock, ppc, pidx,
              psent, pc, cur, tmp, ret, sent, dpc, collected, nSent, raised>>

\* what a callable is: not callable, a plain function, a generator function,
\* a coroutine function, an async generator function
Kinds == {"none", "func", "gen", "coro", "agen"}

\* callable(func)
IsCallable(k) == k # "none"

\* inspect.isgeneratorfunction(func) or inspect.isasyncgenfunction(func) ...
IsGen(k) == k \in {"gen", "agen"}

\* inspect.iscoroutinefunction(func) or inspect.isasyncgenfunction(func) ...
IsAsyncOnlyAsyncGen(k) == k = "agen"
IsAsync(k) == k \in {"coro", "agen"}

\* if concurrency < 1: raise ValueError
ConcurrencyOkOffByOne(c) == ~(c < 0)
ConcurrencyOk(c) == ~(c < 1)

\* if throttle < 0: raise ValueError
ThrottleOk(t) == ~(t < 0)

\* an argument that is an int, and one that is not
IntArg(v) == [int |-> TRUE, val |-> v]
ArgValues(lo, hi) == {IntArg(v) : v \in lo..hi} \cup {[int |-> FALSE, val |-> 0]}

\* a callable as passed by the caller
Func(k) == [kind |-> k, route |-> "self", wrapped |-> "none"]

Rejected(e) == [ok |-> FALSE, err |-> e]

\* Task.__init__: the checks in their order, then the attributes
TaskInit(cls, func, branch, join, n, thr, daemon, multiprocess) ==
    IF ~n.int THEN Rejected("TypeError")
    ELSE IF ~ConcurrencyOk(n.val) THEN Rejected("ValueError")
    ELSE IF ~thr.int THEN Rejected("TypeError")
    ELSE IF ~ThrottleOk(thr.val) THEN Rejected("ValueError")
    ELSE IF ~IsCallable(func.kind) THEN Rejected("TypeError")
    ELSE IF branch /\ ~IsGen(func.kind) THEN Rejected("TypeError")
    ELSE IF ~branch /\ IsGen(func.kind) THEN Rejected("TypeError")
    ELSE IF IsAsync(func.kind) /\ daemon THEN Rejected("ValueError")
    ELSE [ok |-> TRUE, err |-> "none", cls |-> cls, func |-> func,
          is_gen |-> IsGen(func.kind), is_async |-> IsAsync(func.kind),
          branch |-> branch, join |-> join, concurrency |-> n.val,
          throttle |-> thr.val, daemon |-> daemon,
          multiprocess |-> multiprocess]

\* asynchronize: executor = pp if task.multiprocess else tp; a generator is
\* called directly inside the wrapper
RouteSwapped(t) ==
    IF t.is_gen THEN "direct" ELSE IF t.multiprocess THEN "thread" ELSE "process"
Route(t) ==
    IF t.is_gen THEN "direct" ELSE IF t.multiprocess THEN "process" ELSE "thread"

\* the async def wrapper asynchronize builds around task.func
Wrapper(t) == [kind |-> "coro", route |-> Route(t), wrapped |-> t.func.kind]

\* asynchronize(task, tp, pp)
Asynchronize(t) ==
    IF t.is_async THEN t
    ELSE IF t.cls = "PipelineTask"
           THEN TaskInit("PipelineTask", Wrapper(t), t.branch, t.join,
                         IntArg(t.concurrency), IntArg(t.throttle), FALSE, FALSE)
           ELSE TaskInit("Task", Wrapper(t), FALSE, FALSE, IntArg(1), IntArg(0),
                         FALSE, FALSE)

\* Producer.__init__: if task.concurrency > 1: raise RuntimeError
FirstTaskAnyConcurrency(c) == TRUE
FirstTaskConcurrencyOk(c) == ~(c > 1)

\* Producer.__init__(task, next_task, ...); n = 0 stands for next_task None
ProducerInit(t, n) ==
    IF ~FirstTaskConcurrencyOk(t.concurrency) THEN Rejected("RuntimeError")
    ELSE IF t.join THEN Rejected("RuntimeError")
    ELSE [ok |-> TRUE, err |-> "none", q_out |-> "created", maxsize |-> t.throttle,
          n_workers |-> t.concurrency, n_consumers |-> IF n = 0 THEN 1 ELSE n]

\* the executor a call of the callable is dispatched to
ExecutorOf(f) == IF f.route \in {"thread", "process"} THEN f.route ELSE "none"

TaskArgs ==
    [cls : {"Task", "PipelineTask"}, kind : Kinds, branch : BOOLEAN, join : BOOLEAN,
     concurrency : ArgValues(0, MaxConc), throttle : ArgValues(0 - 1, MaxThrottle),
     daemon : BOOLEAN, multiprocess : BOOLEAN]

\* a descriptor is about to be constructed from arbitrary arguments
TaskStart ==
    /\ conc = [s \in Relays |-> 1]
    /\ throttle = [s \in Stages |-> 0]
    /\ Started
    /\ targs \in TaskArgs
    /\ Unbuilt

Built(d) == d.ok \/ d.err # "none"

\* Task(func, branch=..., join=..., concurrency=..., throttle=..., daemon=...)
Construct ==
    /\ ~Built(task)
    /\ task' = TaskInit(targs.cls, Func(targs.kind), targs.branch, targs.join,
                        targs.concurrency, targs.throttle, targs.daemon,
                        targs.multiprocess)
    /\ UNCHANGED <<pipeVars, targs, atask, atask2, prod, submitted, called>>

\* asynchronize(task, tp, pp)
AsynchronizeTask ==
    /\ task.ok
    /\ ~Built(atask)
    /\ atask' = Asynchronize(task)
    /\ UNCHANGED <<pipeVars, targs, task, atask2, prod, submitted, called>>

\* asynchronize applied to its own result
AsynchronizeAgain ==
    /\ atask.ok
    /\ ~Built(atask2)
    /\ atask2' = Asynchronize(atask)
    /\ UNCHANGED <<pipeVars, targs, task, atask, prod, submitted, called>>

\* await atask.func(...): the underlying call returns or raises, and the
\* wrapper hands the awaiter what the call (or the executor's future) gives
AwaitCall ==
    /\ atask.ok
    /\ called = NoCall
    /\ \E o \in {"returns", "raises"} :
          called' = [executor |-> ExecutorOf(atask.func), outcome |-> o, seen |-> o]
    /\ UNCHANGED <<pipeVars, targs, task, atask, atask2, prod, submitted>>

\* Producer(task, next_task, q_err, shutdown_event)
BuildProducer ==
    /\ task.ok
    /\ ~Built(prod)
    /\ \E n \in 0..MaxConc : prod' = ProducerInit(task, n)
    /\ UNCHANGED <<pipeVars, targs, task, atask, atask2, submitted, called>>

\* Producer.start(pool): pool.submit(self._worker)
StartProducer ==
    /\ prod.ok
    /\ ~submitted
    /\ submitted' = TRUE
    /\ UNCHANGED <<pipeVars, targs, task, atask, atask2, prod, called>>

TaskNext ==
    \/ Construct
    \/ AsynchronizeTask
    \/ AsynchronizeAgain
    \/ AwaitCall
    \/ BuildProducer
    \/ StartProducer

TaskSpec == TaskStart /\ [][TaskNext]_vars

\* ------------------------------------------------------------------- C13
ValidArgs(a) ==
    /\ a.concurrency.int /\ a.concurrency.val >= 1
    /\ a.throttle.int /\ a.throttle.val >= 0
    /\ a.kind # "none"
    /\ a.branch = (a.kind \in {"gen", "agen"})
    /\ ~(a.kind \in {"coro", "agen"} /\ a.daemon)

\* C13: construction yields a descriptor exactly when concurrency is an int
\* >= 1, throttle an int >= 0, the callable is callable, branch equals its
\* generator capability and it is not async with daemon; otherwise it raises
\* and there is no descriptor; a descriptor carries the arguments.
C13_ConstructionValidation ==
    Built(task) =>
        /\ task.ok <=> ValidArgs(targs)
        /\ ~task.ok => DOMAIN task = {"ok", "err"}
        /\ task.ok =>
              /\ task.branch = targs.branch /\ task.join = targs.join
              /\ task.concurrency = targs.concurrency.val
              /\ task.throttle = targs.throttle.val
              /\ task.branch = task.is_gen
              /\ ~(task.is_async /\ task.daemon)

\* an async callable with daemon = true and otherwise valid arguments was rejected
C13_Witness ==
    /\ Built(task)
    /\ ~task.ok
    /\ targs.kind = "coro" /\ targs.daemon /\ ~targs.branch
    /\ targs.concurrency = IntArg(1)
    /\ targs.throttle = IntArg(0)

\* ------------------------------------------------------------------- C14
\* C14: the Producer is built exactly when the task has concurrency 1 and
\* join false; a rejected construction has no output queue, and a worker is
\* submitted only for a built Producer.
C14_FirstStageConstraint ==
    /\ Built(prod) =>
          /\ prod.ok <=> (task.concurrency = 1 /\ ~task.join)
          /\ (task.concurrency > 1 \/ task.join) => ~prod.ok
          /\ ~prod.ok => "q_out" \notin DOMAIN prod
    /\ submitted => prod.ok

\* a first task with concurrency 2 was rejected
C14_Witness ==
    /\ Built(prod)
    /\ ~prod.ok
    /\ task.concurrency > 1
    /\ ~task.join
    /\ ~submitted

\* ------------------------------------------------------------------- C15
\* C15: for a descriptor that is not async, the descriptor asynchronize
\* returns has the same branch, join, concurrency and throttle.
C15_AdapterPreserves ==
    (task.ok /\ ~task.is_async /\ atask.ok) =>
        /\ atask.branch = task.branch
        /\ atask.join = task.join
        /\ atask.concurrency = task.concurrency
        /\ atask.throttle = task.throttle

\* ------------------------------------------------------------------- C16
\* C16: asynchronize returns an async descriptor itself, and applied to its
\* own result it returns that result.
C16_AdapterIdempotent ==
    /\ (task.ok /\ task.is_async /\ Built(atask)) => atask = task
    /\ (atask.ok /\ Built(atask2)) => atask2 = atask

\* a synchronous function was wrapped, and the second application returned
\* the wrapped descriptor
C16_Witness ==
    /\ task.ok /\ ~task.is_async
    /\ atask.ok /\ atask # task
    /\ atask2 = atask

====
